---- MODULE Spec2Model ----
(***************************************************************************)
(* The GPU resource and frame-loop subsystem of the normal-map renderer:   *)
(* setupCanvas, updateSceneData, compileProgram, setUpLights,              *)
(* setUpTexture(s), cleanUpTextures, setUpVertexBuffer, renderLoop, and    *)
(* the PPMFileLoader cache they read.                                      *)
(*                                                                         *)
(* JavaScript is single threaded: every entry point (a call of             *)
(* setupCanvas / updateSceneData, a display-refresh callback, the start    *)
(* or the settling of a fetch) runs to completion, so each is one action.  *)
(* The WebGL calls an entry point issues, and its requestAnimationFrame    *)
(* call, are recorded, in order, in `calls`.  WebGL objects are numbered   *)
(* from a counter; 0 is null.                                              *)
(***************************************************************************)
EXTENDS Integers, Sequences, FiniteSets, TLC

VARIABLES
    glContext,        \* sceneData.glContext: Null or the context
    canvas,           \* <<gl.canvas.width, gl.canvas.height>>
    lights,           \* sceneData.lights: the point lights, in the order added
    width, height,    \* sceneData.width, sceneData.height
    sdModel,          \* sceneData.model: a model or NullRef
    sdCamera,         \* sceneData.camera: a camera or NullRef
    sdFrameNumber,    \* sceneData.frameNumber
    fps, lastTime, frameNumber,   \* the module-level FPS variables
    now,              \* performance.now()
    renderingProgram, \* model.renderingProgram, per model
    diffuseTexture,   \* model.diffuseTexture, per model
    normalTexture,    \* model.normalTexture, per model
    modelCache,       \* PPMFileLoader.modelCache: name -> "absent" | "ppm"
    inflight,         \* fetches started by loadIntoCache and not yet settled, per name
    nextShader, nextProgram, nextTexture,  \* the next WebGL object of each kind
    liveShaders, livePrograms, liveTextures,  \* the allocated objects of each kind
    liveBuffers,      \* the number of allocated buffer objects created for each model
    deletedTextures,  \* every handle passed to gl.deleteTexture, in order
    createdFor,       \* texture objects created per <<model, unit>> since its last cleanup
    calls,            \* the calls of the last renderer entry point, in order
    pending,          \* callbacks waiting in requestAnimationFrame's queue
    lastFrame,        \* what the last renderLoop invocation did
    entries           \* renderer entry points run so far (updateSceneData, callbacks)

vars == <<glContext, canvas, lights, width, height, sdModel, sdCamera, sdFrameNumber,
          fps, lastTime, frameNumber, now, renderingProgram, diffuseTexture,
          normalTexture, modelCache, inflight, nextShader, nextProgram,
          nextTexture, liveShaders, livePrograms, liveTextures, liveBuffers,
          deletedTextures, createdFor, calls, pending, lastFrame, entries>>

\* ---------------------------------------------------------------- bounds
MaxEntries == 3      \* updateSceneData calls and display-refresh callbacks in a run
MaxInflight == 2     \* fetches in flight per texture name

\* ------------------------------------------------------- program constants
Null == 0                 \* a null WebGL handle
GL == Null + 1            \* the one rendering context of the canvas
First == Null + 1         \* the first WebGL object of a kind
FpsWindow == 1000         \* now - lastTime > 1000
UvPeriod == 25000         \* const period = 25000
ColorCycle == 255         \* sceneData.frameNumber++ % 255
NullRef == "null"         \* a null model or camera reference

\* ------------------------------------------------------------ the inputs
\* The models the mesh loader can hand to updateSceneData.  Their fields are
\* fixed at load time.
ModelIds == {"flat", "bumped", "unlit"}

hasDiffuseMap(m) == m = "bumped"
hasNormalMap(m) == m = "bumped"

getVertexShaderName(m) ==
    IF m = "flat" THEN "vertexShader" ELSE "vertexTextureNormalNormalMapShader"

numTriangles(m) == IF m = "bumped" THEN 2 ELSE 1

vertexIndicesLength(m) == 3 * numTriangles(m)

\* model.textures.get(textureType): the material of "bumped" names the same
\* file for map_Kd and map_Bump.
TextureNames == {"brick.ppm"}
textures(m, textureType) == "brick.ppm"

\* The active uniforms of the program linked from the model's shader pair:
\* gl.getUniformLocation returns null for any other name.  "bumped" pairs the
\* normal-map vertex shader with a fragment shader that reads both samplers
\* and the lights; "unlit" pairs it with a fragment shader that reads no
\* lights (as src/unnamed/part_001 does), so its program has no lights arrays.
Matrices == {"projectionMatrix", "viewMatrix", "modelMatrix"}
Uniforms(m) ==
    IF m = "bumped"
    THEN Matrices \cup {"textureSampler", "normalSampler", "lightsUniform",
                        "lightColors", "uvOffset"}
    ELSE Matrices

\* Whether 'Normal' occurs in the vertex shader name (String.includes).
IncludesNormal(name) == name = "vertexTextureNormalNormalMapShader"

\* The cameras: usePerspective and renderSolid.
CameraIds == {"perspSolid", "orthoWire"}
usePerspective(c) == c = "perspSolid"
renderSolid(c) == c = "perspSolid"

\* The canvas sizes the page can give the canvas element.
CanvasSizes == {<<800, 600>>, <<600, 800>>}

\* Milliseconds between two entry points.
TimeSteps == {500}

\* What the driver answers to one compileProgram call.  The context is not
\* lost in the runs explored, so createShader, createProgram and
\* createTexture yield objects ("vsCreateNull", "fsCreateNull",
\* "programCreateNull" and created = FALSE are the answers of a lost context).
CompileOutcomes == {"linked", "vsCompileFail", "fsCompileFail", "linkFail"}

\* The inputs of one renderLoop invocation: the driver's answer to the
\* compile/link sequence, and whether gl.createTexture yields an object.
FrameInputs == [compile : CompileOutcomes, created : {TRUE}]

\* ------------------------------------------------------------- the world
\* Everything a renderer entry point can change, threaded through the
\* operators below in the order of the code's statements.
World ==
    [calls |-> << >>, nextShader |-> nextShader,
     nextProgram |-> nextProgram, nextTexture |-> nextTexture,
     liveShaders |-> liveShaders, livePrograms |-> livePrograms,
     liveTextures |-> liveTextures, liveBuffers |-> liveBuffers,
     deletedTextures |-> deletedTextures, createdFor |-> createdFor,
     renderingProgram |-> renderingProgram,
     diffuseTexture |-> diffuseTexture, normalTexture |-> normalTexture,
     sdFrameNumber |-> sdFrameNumber,
     fps |-> fps, lastTime |-> lastTime, frameNumber |-> frameNumber,
     pending |-> pending]

\* One WebGL call: its name, the string it names (a uniform, an attribute, a
\* target) and its numeric arguments.
Call(w, op, name, args) ==
    [w EXCEPT !.calls = Append(@, [op |-> op, name |-> name, args |-> args])]

\* The result of a function: the world after it, its return value, and the
\* message of the Error it threw ("" when it returned).
Ret(w, v) == [w |-> w, ret |-> v, err |-> ""]
Throw(w, e) == [w |-> w, ret |-> Null, err |-> e]

\* ------------------------------------------------------- compileProgram
\* The cached program of the model, returned without any WebGL call.
CachedProgramIgnored(w, m) == Null
CachedProgram(w, m) == w.renderingProgram[m]

\* gl.createShader .. gl.getShaderParameter of one stage whose object is `sh`.
CompileStage(w, stage, sh) ==
    LET w1 == [w EXCEPT !.nextShader = sh + 1, !.liveShaders = @ \cup {sh}]
        w2 == Call(w1, "createShader", stage, <<sh>>)
        w3 == Call(w2, "shaderSource", stage, <<sh>>)
        w4 == Call(w3, "compileShader", stage, <<sh>>)
    IN  Call(w4, "getShaderParameter", "COMPILE_STATUS", <<sh>>)

\* attachShader x2, linkProgram, deleteShader x2, getProgramParameter.
LinkStagesKeepsShaders(w, vs, fs, prog) ==
    LET w1 == [w EXCEPT !.nextProgram = prog + 1, !.livePrograms = @ \cup {prog}]
        w2 == Call(w1, "createProgram", "", <<prog>>)
        w3 == Call(w2, "attachShader", "", <<prog, vs>>)
        w4 == Call(w3, "attachShader", "", <<prog, fs>>)
        w5 == Call(w4, "linkProgram", "", <<prog>>)
    IN  Call(w5, "getProgramParameter", "LINK_STATUS", <<prog>>)
LinkStages(w, vs, fs, prog) ==
    LET w1 == [w EXCEPT !.nextProgram = prog + 1, !.livePrograms = @ \cup {prog}]
        w2 == Call(w1, "createProgram", "", <<prog>>)
        w3 == Call(w2, "attachShader", "", <<prog, vs>>)
        w4 == Call(w3, "attachShader", "", <<prog, fs>>)
        w5 == Call(w4, "linkProgram", "", <<prog>>)
        w6 == Call([w5 EXCEPT !.liveShaders = @ \ {vs}], "deleteShader", "", <<vs>>)
        w7 == Call([w6 EXCEPT !.liveShaders = @ \ {fs}], "deleteShader", "", <<fs>>)
    IN  Call(w7, "getProgramParameter", "LINK_STATUS", <<prog>>)

\* Lines 203-213: LINK_STATUS is tested and a linked program is cached.
cacheProgram(wl, prog, m, outcome) ==
    IF outcome = "linkFail"
    THEN Ret(wl, Null)
    ELSE Ret([wl EXCEPT !.renderingProgram[m] = prog], prog)

\* Lines 176-213: the fragment shader's COMPILE_STATUS, then the program.
linkShaders(wf, vs, fs, m, outcome) ==
    IF outcome = "fsCompileFail"
    THEN Ret(Call(wf, "getShaderInfoLog", "FRAGMENT_SHADER", <<fs>>), Null)
    ELSE IF outcome = "programCreateNull"
    THEN Throw(Call(wf, "createProgram", "", <<Null>>),
               "Failed to create shader program")
    ELSE cacheProgram(LinkStages(wf, vs, fs, wf.nextProgram), wf.nextProgram,
                      m, outcome)

\* Lines 147-213: the vertex shader's COMPILE_STATUS, then the fragment shader.
compileFragmentShader(wv, vs, m, outcome) ==
    IF outcome = "vsCompileFail"
    THEN Ret(Call(wv, "getShaderInfoLog", "VERTEX_SHADER", <<vs>>), Null)
    ELSE IF outcome = "fsCreateNull"
    THEN Throw(Call(wv, "createShader", "FRAGMENT_SHADER", <<Null>>),
               "Failed to create fragment shader")
    ELSE linkShaders(CompileStage(wv, "FRAGMENT_SHADER", wv.nextShader), vs,
                     wv.nextShader, m, outcome)

compileProgram(w, gl, m, c, outcome) ==
    IF m = NullRef THEN Ret(w, Null)
    ELSE IF CachedProgram(w, m) # Null THEN Ret(w, CachedProgram(w, m))
    ELSE IF c = NullRef THEN Ret(w, Null)
    ELSE IF gl = Null THEN Ret(w, Null)
    ELSE IF outcome = "vsCreateNull"
    THEN Throw(Call(w, "createShader", "VERTEX_SHADER", <<Null>>),
               "Failed to create vertex shader")
    ELSE compileFragmentShader(CompileStage(w, "VERTEX_SHADER", w.nextShader),
                               w.nextShader, m, outcome)

\* ----------------------------------------------------------- setUpLights
setUpLightsUngated(w, gl, m, shaderProgram) ==
    IF gl = Null THEN Ret(w, Null)
    ELSE
    LET w1 == Call(w, "getUniformLocation", "lightsUniform", <<shaderProgram>>) IN
    IF "lightsUniform" \notin Uniforms(m)
    THEN Throw(w1, "Failed to get the storage location of hack")
    ELSE
    LET w2 == Call(w1, "uniform3fv", "lightsUniform", << >>)
        w3 == Call(w2, "getUniformLocation", "lightColors", <<shaderProgram>>)
    IN
    IF "lightColors" \notin Uniforms(m)
    THEN Throw(w3, "Failed to get the storage location of lightColor")
    ELSE Ret(Call(w3, "uniform3fv", "lightColors", << >>), Null)
setUpLights(w, gl, m, shaderProgram) ==
    IF gl = Null THEN Ret(w, Null)
    ELSE IF getVertexShaderName(m) # "vertexTextureNormalNormalMapShader"
    THEN Ret(w, Null)
    ELSE
    LET w1 == Call(w, "getUniformLocation", "lightsUniform", <<shaderProgram>>) IN
    IF "lightsUniform" \notin Uniforms(m)
    THEN Throw(w1, "Failed to get the storage location of hack")
    ELSE
    LET w2 == Call(w1, "uniform3fv", "lightsUniform", << >>)
        w3 == Call(w2, "getUniformLocation", "lightColors", <<shaderProgram>>)
    IN
    IF "lightColors" \notin Uniforms(m)
    THEN Throw(w3, "Failed to get the storage location of lightColor")
    ELSE Ret(Call(w3, "uniform3fv", "lightColors", << >>), Null)

\* ---------------------------------------------------------- PPMFileLoader
\* loadFile: the cached image, or undefined ("absent"); the cache is only read.
\* A cached PPM is one loadFileFromString has filled with its pixel data.
loadFileAlwaysFound(cache, textureFilePath) == "ppm"
loadFile(cache, textureFilePath) == cache[textureFilePath]

\* ---------------------------------------------------------- setUpTexture
\* Lines 281-291: the textureCoord attribute.
textureCoordAttribute(w, shaderProgram) ==
    LET w1 == Call(w, "getAttribLocation", "textureCoord", <<shaderProgram>>)
        w2 == Call(w1, "enableVertexAttribArray", "textureCoord", << >>)
    IN  Call(w2, "vertexAttribPointer", "textureCoord", <<2>>)

\* Lines 294-310: gl.createTexture yields `texture`, which is bound to the
\* unit and given its parameters.
createTexture(w, m, textureUnit, texture) ==
    LET w4 == [w EXCEPT !.nextTexture = texture + 1,
                        !.liveTextures = @ \cup {texture},
                        !.createdFor[<<m, textureUnit>>] = @ + 1]
        w5 == Call(w4, "createTexture", "", <<texture>>)
        w6 == Call(w5, "activeTexture", "", <<textureUnit>>)
        w7 == Call(w6, "bindTexture", "TEXTURE_2D", <<texture>>)
        w8 == Call(w7, "texParameteri", "TEXTURE_WRAP_S", << >>)
        w9 == Call(w8, "texParameteri", "TEXTURE_WRAP_T", << >>)
    IN  Call(w9, "texParameteri", "TEXTURE_MIN_FILTER", << >>)

\* Lines 331-341: the sampler uniform and the pixel upload.
uploadImage(w, m, shaderProgram, textureUnit, samplerName, texture) ==
    LET w11 == Call(w, "getUniformLocation", samplerName, <<shaderProgram>>) IN
    IF samplerName \notin Uniforms(m)
    THEN Throw(w11, "The sampler name was not found in the program")
    ELSE
    LET w12 == Call(w11, "uniform1i", samplerName, <<textureUnit>>)
        w13 == Call(w12, "texImage2D", "TEXTURE_2D", <<texture>>)
    IN  Ret(Call(w13, "generateMipmap", "TEXTURE_2D", <<texture>>), texture)

\* Lines 312-341: the image is looked up in the loader after the texture
\* object was created; nothing is uploaded when it is not there.
loadAndUpload(w, m, shaderProgram, textureUnit, textureType, samplerName, texture, cache) ==
    IF loadFile(cache, textures(m, textureType)) = "absent"
    THEN Ret(w, Null)
    ELSE uploadImage(w, m, shaderProgram, textureUnit, samplerName, texture)

setUpTexture(w, gl, m, shaderProgram, textureUnit, textureType, samplerName, created, cache) ==
    IF gl = Null THEN Ret(w, Null)
    ELSE IF m = NullRef THEN Ret(w, Null)
    ELSE IF ~created
    THEN Ret(Call(textureCoordAttribute(w, shaderProgram),
                  "createTexture", "", <<Null>>), Null)
    ELSE loadAndUpload(createTexture(textureCoordAttribute(w, shaderProgram),
                                     m, textureUnit, w.nextTexture),
                       m, shaderProgram, textureUnit, textureType, samplerName,
                       w.nextTexture, cache)

\* --------------------------------------------------------- setUpTextures
\* `model.diffuseTexture === null`: the texture has to be set up.
NotSetUp(handle) == handle = Null

\* The uvOffset upload of the normal map: sin(2 pi (now % period) / period)
\* is a function of the phase now % period, which is what the call records.
UvOffset(w, shaderProgram, t) ==
    LET w1 == Call(w, "getUniformLocation", "uvOffset", <<shaderProgram>>)
    IN  Call(w1, "uniform2fv", "uvOffset", <<t % UvPeriod>>)

\* Lines 374-400: model.normalTexture = the result r of setUpTexture (or the
\* handle the model had), the throw when it is null, the uvOffset upload.
storeNormalTexture(r, m, shaderProgram, t) ==
    IF r.err # "" THEN Throw(r.w, r.err)
    ELSE IF r.ret = Null
    THEN Throw([r.w EXCEPT !.normalTexture[m] = r.ret],
               "Failed to set up normal texture")
    ELSE Ret(UvOffset([r.w EXCEPT !.normalTexture[m] = r.ret], shaderProgram, t),
             TRUE)

setUpNormalMap(w, gl, m, shaderProgram, in, cache, t) ==
    IF ~hasNormalMap(m) THEN Ret(w, TRUE)
    ELSE storeNormalTexture(
             IF NotSetUp(w.normalTexture[m])
             THEN setUpTexture(w, gl, m, shaderProgram, 1, "map_Bump",
                               "normalSampler", in.created, cache)
             ELSE Ret(w, w.normalTexture[m]),
             m, shaderProgram, t)

\* Lines 365-379: model.diffuseTexture = the result r of setUpTexture (or the
\* handle the model had), the throw when it is null, then the normal map.
storeDiffuseTexture(r, gl, m, shaderProgram, in, cache, t) ==
    IF r.err # "" THEN Throw(r.w, r.err)
    ELSE IF r.ret = Null
    THEN Throw([r.w EXCEPT !.diffuseTexture[m] = r.ret],
               "Failed to set up diffuse texture")
    ELSE setUpNormalMap([r.w EXCEPT !.diffuseTexture[m] = r.ret], gl, m,
                        shaderProgram, in, cache, t)

setUpTextures(w, gl, m, shaderProgram, in, cache, t) ==
    IF gl = Null THEN Ret(w, FALSE)
    ELSE IF m = NullRef THEN Ret(w, FALSE)
    ELSE IF ~hasDiffuseMap(m)
    THEN setUpNormalMap(w, gl, m, shaderProgram, in, cache, t)
    ELSE storeDiffuseTexture(
             IF NotSetUp(w.diffuseTexture[m])
             THEN setUpTexture(w, gl, m, shaderProgram, 0, "map_Kd",
                               "textureSampler", in.created, cache)
             ELSE Ret(w, w.diffuseTexture[m]),
             gl, m, shaderProgram, in, cache, t)

\* ------------------------------------------------------- cleanUpTextures
cleanUpDiffuseKeepsHandle(w, m) ==
    IF hasDiffuseMap(m) /\ w.diffuseTexture[m] # Null
    THEN Call([w EXCEPT !.liveTextures = @ \ {w.diffuseTexture[m]},
                        !.deletedTextures = Append(@, w.diffuseTexture[m])],
              "deleteTexture", "", <<w.diffuseTexture[m]>>)
    ELSE w
cleanUpDiffuse(w, m) ==
    IF hasDiffuseMap(m) /\ w.diffuseTexture[m] # Null
    THEN Call([w EXCEPT !.liveTextures = @ \ {w.diffuseTexture[m]},
                        !.deletedTextures = Append(@, w.diffuseTexture[m]),
                        !.diffuseTexture[m] = Null],
              "deleteTexture", "", <<w.diffuseTexture[m]>>)
    ELSE w

cleanUpNormalKeepsHandle(w, m) ==
    IF hasNormalMap(m) /\ w.normalTexture[m] # Null
    THEN Call([w EXCEPT !.liveTextures = @ \ {w.normalTexture[m]},
                        !.deletedTextures = Append(@, w.normalTexture[m])],
              "deleteTexture", "", <<w.normalTexture[m]>>)
    ELSE w
cleanUpNormalForgotten(w, m) ==
    IF hasNormalMap(m) /\ w.normalTexture[m] # Null
    THEN [w EXCEPT !.normalTexture[m] = Null]
    ELSE w
cleanUpNormal(w, m) ==
    IF hasNormalMap(m) /\ w.normalTexture[m] # Null
    THEN Call([w EXCEPT !.liveTextures = @ \ {w.normalTexture[m]},
                        !.deletedTextures = Append(@, w.normalTexture[m]),
                        !.normalTexture[m] = Null],
              "deleteTexture", "", <<w.normalTexture[m]>>)
    ELSE w

cleanUpTextures(w, gl, m) ==
    IF gl = Null THEN w
    ELSE IF m = NullRef THEN w
    ELSE LET w1 == cleanUpNormal(cleanUpDiffuse(w, m), m)
         IN  [w1 EXCEPT !.createdFor[<<m, 0>>] = 0, !.createdFor[<<m, 1>>] = 0]

\* ----------------------------------------------------- setUpVertexBuffer
setUpVertexBuffer(w, m, shaderProgram) ==
    LET w1 == [w EXCEPT !.liveBuffers[m] = @ + 2]
        w2 == Call(w1, "createBuffer", "", << >>)
        w3 == Call(w2, "bindBuffer", "ARRAY_BUFFER", << >>)
        w4 == Call(w3, "bufferData", "ARRAY_BUFFER", << >>)
        w5 == Call(w4, "createBuffer", "", << >>)
        w6 == Call(w5, "bindBuffer", "ELEMENT_ARRAY_BUFFER", << >>)
        w7 == Call(w6, "bufferData", "ELEMENT_ARRAY_BUFFER", << >>)
        w8 == Call(w7, "getAttribLocation", "position", <<shaderProgram>>)
        w9 == Call(w8, "enableVertexAttribArray", "position", << >>)
    IN  Call(w9, "vertexAttribPointer", "position", <<3>>)

\* ------------------------------------------------------------ renderLoop
\* The three guards at the top of renderLoop.
PreconditionsWithoutCamera(gl, m, c) == gl # Null /\ m # NullRef
Preconditions(gl, m, c) == gl # Null /\ m # NullRef /\ c # NullRef

\* gl.viewport's arguments <<x, y, width, height>>, in half pixels: the
\* JavaScript quotient (width - squareSize) / 2 is a fraction when the
\* difference is odd, and twice it is always an integer.
FullViewport(cv) == <<0, 0, 2 * cv[1], 2 * cv[2]>>

OrthoViewportFlipped(cv) ==
    LET squareSize == IF cv[1] < cv[2] THEN cv[2] ELSE cv[1]
    IN  <<cv[1] - squareSize, cv[2] - squareSize, 2 * squareSize, 2 * squareSize>>
OrthoViewport(cv) ==
    LET squareSize == IF cv[1] > cv[2] THEN cv[2] ELSE cv[1]
    IN  <<cv[1] - squareSize, cv[2] - squareSize, 2 * squareSize, 2 * squareSize>>

\* The normal attribute, set up when the shader name includes 'Normal'.
setUpNormals(w, m, shaderProgram) ==
    IF IncludesNormal(getVertexShaderName(m))
    THEN LET w1 == Call(w, "getAttribLocation", "normal", <<shaderProgram>>)
             w2 == Call(w1, "enableVertexAttribArray", "normal", << >>)
         IN  Call(w2, "vertexAttribPointer", "normal", <<3>>)
    ELSE w

\* getUniformLocation + uniformMatrix4fv of one matrix.
uploadMatrix(w, name, shaderProgram) ==
    Call(Call(w, "getUniformLocation", name, <<shaderProgram>>),
         "uniformMatrix4fv", name, << >>)

\* The draw calls: one line loop per triangle, or one indexed triangle list.
drawCallsOneMore(m, c) ==
    IF ~renderSolid(c)
    THEN [i \in 1 .. numTriangles(m) + 1 |->
             [op |-> "drawElements", name |-> "LINE_LOOP",
              args |-> <<3, ((i - 1) * 3) * 2>>]]
    ELSE << [op |-> "drawElements", name |-> "TRIANGLES",
             args |-> <<vertexIndicesLength(m), 0>>] >>
drawCalls(m, c) ==
    IF ~renderSolid(c)
    THEN [i \in 1 .. numTriangles(m) |->
             [op |-> "drawElements", name |-> "LINE_LOOP",
              args |-> <<3, ((i - 1) * 3) * 2>>]]
    ELSE << [op |-> "drawElements", name |-> "TRIANGLES",
             args |-> <<vertexIndicesLength(m), 0>>] >>

\* frameNumber++ and the once-a-second report.
countFrame(w, t) ==
    LET n == w.frameNumber + 1 IN
    IF t - w.lastTime > FpsWindow
    THEN [w EXCEPT !.fps = n, !.frameNumber = 0, !.lastTime = t]
    ELSE [w EXCEPT !.frameNumber = n]

\* Line 566-567: sceneData.frameNumber++ and the clear colour it gives.
clearColor(w) ==
    Call([w EXCEPT !.sdFrameNumber = @ + 1], "clearColor", "",
         <<w.sdFrameNumber % ColorCycle>>)

\* Lines 595-606: the draw calls, then gl.flush and gl.finish.
drawAndFlushReversed(w, m, c) ==
    LET w1 == Call(Call(w, "flush", "", << >>), "finish", "", << >>)
    IN  [w1 EXCEPT !.calls = @ \o drawCalls(m, c)]
drawAndFlush(w, m, c) ==
    LET w1 == [w EXCEPT !.calls = @ \o drawCalls(m, c)]
    IN  Call(Call(w1, "flush", "", << >>), "finish", "", << >>)

\* Line 622: requestAnimationFrame(renderLoop) queues one callback.
requestAnimationFrame(w) ==
    Call([w EXCEPT !.pending = @ + 1], "requestAnimationFrame", "renderLoop", << >>)

\* Lines 526-622: everything after texture setup.
drawFrame(w, m, c, cv, shaderProgram, t) ==
    LET w1 == setUpNormals(w, m, shaderProgram)
        w2 == uploadMatrix(w1, "projectionMatrix", shaderProgram)
        w3 == uploadMatrix(w2, "viewMatrix", shaderProgram)
        w4 == uploadMatrix(w3, "modelMatrix", shaderProgram)
        w5 == Call(w4, "viewport", "", FullViewport(cv))
        w6 == clearColor(w5)
        w7 == Call(w6, "viewport", "",
                   IF ~usePerspective(c) THEN OrthoViewport(cv) ELSE FullViewport(cv))
        w8 == Call(w7, "enable", "DEPTH_TEST", << >>)
        w9 == drawAndFlush(w8, m, c)
        w10 == countFrame(w9, t)
    IN  requestAnimationFrame(w10)

Frame(w, outcome, err) == [w |-> w, outcome |-> outcome, err |-> err]

\* Lines 508-622: the frame after setUpTextures answered st.
afterTextures(st, m, c, cv, shaderProgram, t) ==
    IF st.err # "" THEN Frame(st.w, "threw", st.err)
    ELSE Frame(drawFrame(st.w, m, c, cv, shaderProgram, t), "drawn", "")

\* Lines 504-622: the frame after setUpLights answered sl.
afterLights(sl, gl, m, c, cv, shaderProgram, in, cache, t) ==
    IF sl.err # "" THEN Frame(sl.w, "threw", sl.err)
    ELSE afterTextures(setUpTextures(sl.w, gl, m, shaderProgram, in, cache, t),
                       m, c, cv, shaderProgram, t)

\* Lines 490-622: the frame after compileProgram answered cp.
afterCompile(cp, gl, m, c, cv, in, cache, t) ==
    IF cp.err # "" THEN Frame(cp.w, "threw", cp.err)
    ELSE IF cp.ret = Null THEN Frame(cp.w, "noProgram", "")
    ELSE afterLights(
             setUpLights(setUpVertexBuffer(Call(cp.w, "useProgram", "", <<cp.ret>>),
                                           m, cp.ret),
                         gl, m, cp.ret),
             gl, m, c, cv, cp.ret, in, cache, t)

renderLoop(w, gl, m, c, cv, in, cache, t) ==
    IF ~Preconditions(gl, m, c) THEN Frame(w, "idle", "")
    ELSE afterCompile(compileProgram(w, gl, m, c, in.compile),
                      gl, m, c, cv, in, cache, t)

\* --------------------------------------------------------------- actions
Commit(w) ==
    /\ calls' = w.calls
    /\ nextShader' = w.nextShader
    /\ nextProgram' = w.nextProgram
    /\ nextTexture' = w.nextTexture
    /\ liveShaders' = w.liveShaders
    /\ livePrograms' = w.livePrograms
    /\ liveTextures' = w.liveTextures
    /\ liveBuffers' = w.liveBuffers
    /\ deletedTextures' = w.deletedTextures
    /\ createdFor' = w.createdFor
    /\ renderingProgram' = w.renderingProgram
    /\ diffuseTexture' = w.diffuseTexture
    /\ normalTexture' = w.normalTexture
    /\ sdFrameNumber' = w.sdFrameNumber
    /\ fps' = w.fps
    /\ lastTime' = w.lastTime
    /\ frameNumber' = w.frameNumber
    /\ pending' = w.pending

\* ------------------------------------------------------------ the lights
\* A point light's position: the coordinates pos[k] / den, in half units
\* (point1 of the scene's row of lights has y = .5).  The quotients of
\* linearLight are kept exact.
GLPointLight(pos, den) == [pos |-> pos, den |-> den]

\* Lines 21-31: deltaX = (point2[0] - point1[0]) / (lights - 1), and one light
\* at point1 + i * delta for every i of the loop `for (i = 0; i <= lights; i++)`
\* (j = i + 1 below).
linearLight(ls, point1, point2, n) ==
    ls \o [j \in 1 .. n + 1 |->
              GLPointLight([k \in 1 .. 3 |->
                               point1[k] * (n - 1)
                                 + (j - 1) * (point2[k] - point1[k])],
                           n - 1)]

\* Line 33: linearLight([-10, .5, -5], [10, .5, -5], 30, ...), in half units.
RowStart == <<-20, 1, -10>>
RowEnd == <<20, 1, -10>>
RowLights == 30
\* Lines 36-40: the four lights added after the row.
CornerLights ==
    << GLPointLight(<<10, 10, -10>>, 1), GLPointLight(<<-10, 10, -10>>, 1),
       GLPointLight(<<-10, 10, 10>>, 1), GLPointLight(<<10, 10, 10>>, 1) >>

Init ==
    /\ glContext = Null
    /\ canvas \in CanvasSizes
    /\ lights = linearLight(<< >>, RowStart, RowEnd, RowLights) \o CornerLights
    /\ width = 0 /\ height = 0
    /\ sdModel = NullRef /\ sdCamera = NullRef
    /\ sdFrameNumber = 0
    /\ fps = 0 /\ lastTime = 0 /\ frameNumber = 0
    /\ now = 0
    /\ renderingProgram = [m \in ModelIds |-> Null]
    /\ diffuseTexture = [m \in ModelIds |-> Null]
    /\ normalTexture = [m \in ModelIds |-> Null]
    /\ modelCache = [n \in TextureNames |-> "absent"]
    /\ inflight = [n \in TextureNames |-> 0]
    /\ nextShader = First /\ nextProgram = First /\ nextTexture = First
    /\ liveShaders = {} /\ livePrograms = {} /\ liveTextures = {}
    /\ liveBuffers = [m \in ModelIds |-> 0]
    /\ deletedTextures = << >>
    /\ createdFor = [k \in ModelIds \X {0, 1} |-> 0]
    /\ calls = << >>
    /\ pending = 0
    /\ lastFrame = [outcome |-> "none", err |-> "", model |-> NullRef,
                    camera |-> NullRef, via |-> "none"]
    /\ entries = 0

\* Line 50: sceneData.glContext !== null.
HasContextIgnored(gl) == FALSE
HasContext(gl) == gl # Null

\* The context a getContext call that creates one yields: a handle other
\* than the one stored, GL for the first.
NewContext(gl) == gl + 1

\* setupCanvas(): `found` is whether the page has the canvas element,
\* `supported` whether getContext yields a context.
SetupCanvas(found, supported) ==
    /\ ~HasContext(glContext)
    /\ found /\ supported
    /\ width' = canvas[1]
    /\ height' = canvas[2]
    /\ glContext' = NewContext(glContext)
    /\ calls' = << [op |-> "clearColor", name |-> "", args |-> << >>],
                   [op |-> "clear", name |-> "COLOR_BUFFER_BIT", args |-> << >>] >>
    /\ UNCHANGED <<canvas, lights, sdModel, sdCamera, sdFrameNumber, fps, lastTime,
                   frameNumber, now, renderingProgram, diffuseTexture,
                   normalTexture, modelCache, inflight, nextShader,
                   nextProgram, nextTexture, liveShaders, livePrograms,
                   liveTextures, liveBuffers, deletedTextures, createdFor,
                   pending, lastFrame, entries>>

\* setupCanvas() when it returns early: the context exists already, the
\* canvas is not found, or WebGL is not supported.
SetupCanvasReturns(found, supported) ==
    /\ HasContext(glContext) \/ ~found \/ ~supported
    /\ UNCHANGED vars

\* An input the invocation never reads is fixed to one value, so that the
\* same call is not enumerated once per unread answer: the compile outcome
\* is read only when the model has no cached program, the createTexture
\* answer only for a model with a texture map.
Consumed(in, gl, m, c) ==
    /\ in.compile # "linked" =>
           Preconditions(gl, m, c) /\ renderingProgram[m] = Null
    /\ ~in.created =>
           Preconditions(gl, m, c) /\ (hasDiffuseMap(m) \/ hasNormalMap(m))

\* What a renderer entry point leaves behind: the world r.w its frame ended
\* in, the clock, and the record of the frame.
Entered(r, model, camera, via, t) ==
    /\ Commit(r.w)
    /\ now' = t
    /\ lastFrame' = [outcome |-> r.outcome, err |-> r.err, model |-> model,
                     camera |-> camera, via |-> via]
    /\ entries' = entries + 1

\* updateSceneData(model, camera), dt milliseconds after the last entry point.
UpdateSceneData(model, camera, in, dt) ==
    /\ entries < MaxEntries
    /\ Consumed(in, glContext, model, camera)
    /\ Entered(IF model # NullRef /\ camera # NullRef
               THEN renderLoop(cleanUpTextures(World, glContext, sdModel),
                               glContext, model, camera, canvas, in, modelCache,
                               now + dt)
               ELSE Frame(cleanUpTextures(World, glContext, sdModel), "none", ""),
               model, camera, "updateSceneData", now + dt)
    /\ sdCamera' = camera
    /\ sdModel' = model
    /\ UNCHANGED <<glContext, canvas, lights, width, height, modelCache, inflight>>

\* The display refresh runs one callback queued by requestAnimationFrame.
AnimationFrame(in, dt) ==
    /\ pending > 0
    /\ entries < MaxEntries
    /\ Consumed(in, glContext, sdModel, sdCamera)
    /\ Entered(renderLoop([World EXCEPT !.pending = @ - 1], glContext, sdModel,
                          sdCamera, canvas, in, modelCache, now + dt),
               sdModel, sdCamera, "requestAnimationFrame", now + dt)
    /\ UNCHANGED <<glContext, canvas, lights, width, height, sdModel, sdCamera,
                   modelCache, inflight>>

rendererVars == <<glContext, canvas, lights, width, height, sdModel, sdCamera,
                  sdFrameNumber, fps, lastTime, frameNumber, now,
                  renderingProgram, diffuseTexture, normalTexture, nextShader,
                  nextProgram, nextTexture, liveShaders, livePrograms,
                  liveTextures, liveBuffers,
                  deletedTextures, createdFor, calls, pending, lastFrame,
                  entries>>

\* loadIntoCache(name) up to its await: a cached name returns at once,
\* any other starts a fetch.
LoadIntoCache(name) ==
    /\ modelCache[name] = "absent"
    /\ inflight[name] < MaxInflight
    /\ inflight' = [inflight EXCEPT ![name] = @ + 1]
    /\ UNCHANGED modelCache
    /\ UNCHANGED rendererVars

\* loadIntoCache(name) of a cached name: it returns the cached image.
LoadIntoCacheReturns(name) ==
    /\ modelCache[name] # "absent"
    /\ UNCHANGED vars

\* The fetch of `name` answered ok: the text is parsed and cached.
FetchResolved(name) ==
    /\ inflight[name] > 0
    /\ inflight' = [inflight EXCEPT ![name] = @ - 1]
    /\ modelCache' = [modelCache EXCEPT ![name] = "ppm"]
    /\ UNCHANGED rendererVars

\* The fetch failed or the response was not ok: the error is logged.
FetchRejected(name) ==
    /\ inflight[name] > 0
    /\ inflight' = [inflight EXCEPT ![name] = @ - 1]
    /\ UNCHANGED modelCache
    /\ UNCHANGED rendererVars

Next ==
    \/ \E found \in BOOLEAN, supported \in BOOLEAN : SetupCanvas(found, supported)
    \/ \E found \in BOOLEAN, supported \in BOOLEAN : SetupCanvasReturns(found, supported)
    \/ \E model \in ModelIds \cup {NullRef}, camera \in CameraIds \cup {NullRef},
          in \in FrameInputs, dt \in TimeSteps :
          UpdateSceneData(model, camera, in, dt)
    \/ \E in \in FrameInputs, dt \in TimeSteps : AnimationFrame(in, dt)
    \/ \E name \in TextureNames : LoadIntoCache(name)
    \/ \E name \in TextureNames : LoadIntoCacheReturns(name)
    \/ \E name \in TextureNames : FetchResolved(name)
    \/ \E name \in TextureNames : FetchRejected(name)

Spec == Init /\ [][Next]_vars

\* ================================================================ claims
Range(seq) == {seq[i] : i \in DOMAIN seq}
Ops(log) == {log[i].op : i \in DOMAIN log}
Count(seq, x) == Cardinality({i \in DOMAIN seq : seq[i] = x})

\* The step is a renderer entry point whose renderLoop ran for model m past
\* its three guards.
FrameOf(m) ==
    /\ entries' = entries + 1
    /\ lastFrame'.model = m
    /\ lastFrame'.outcome \in {"noProgram", "threw", "drawn"}

\* ------------------------------------------------------------------- C1
CompileOps == {"createShader", "shaderSource", "compileShader",
               "getShaderParameter", "getShaderInfoLog", "createProgram",
               "attachShader", "linkProgram", "deleteShader",
               "getProgramParameter"}

\* compileProgram called twice in a row for a model: the second call returns
\* the handle of the first, changes nothing and issues no call, whatever the
\* driver would answer; linkProgram ran once, or not at all when the model
\* had a program already.
C1_TwoCalls ==
    \A m \in ModelIds, o \in CompileOutcomes :
        LET r1 == compileProgram(World, GL, m, "perspSolid", "linked")
            r2 == compileProgram(r1.w, GL, m, "perspSolid", o)
        IN  /\ r1.ret # Null
            /\ r2.ret = r1.ret
            /\ r2.w = r1.w
            /\ Cardinality({i \in DOMAIN r1.w.calls :
                               r1.w.calls[i].op = "linkProgram"}) =
                 (IF renderingProgram[m] = Null THEN 1 ELSE 0)

\* A model whose renderingProgram is non-null keeps that handle in every
\* step, and a frame of that model binds exactly that handle, issues no call
\* of the compile/link sequence and creates no shader or program.
C1_FrameReuses ==
    \A m \in ModelIds :
        renderingProgram[m] # Null =>
           /\ renderingProgram'[m] = renderingProgram[m]
           /\ FrameOf(m) =>
                /\ Ops(calls') \cap CompileOps = {}
                /\ \E i \in DOMAIN calls' :
                      /\ calls'[i].op = "useProgram"
                      /\ calls'[i].args = <<renderingProgram[m]>>
                /\ nextShader' = nextShader
                /\ nextProgram' = nextProgram
                /\ liveShaders' = liveShaders
                /\ livePrograms' = livePrograms

\* C1: two consecutive compileProgram calls return the identical program
\* handle and run the compile/link sequence once; whenever
\* model.renderingProgram is non-null, compileProgram returns it unchanged and
\* issues no GPU call.
C1_CachedProgramReused == []C1_TwoCalls /\ [][C1_FrameReuses]_vars

\* A display-refresh frame drew with the program an earlier frame compiled.
C1_Witness ==
    /\ lastFrame.via = "requestAnimationFrame"
    /\ lastFrame.outcome = "drawn"
    /\ Ops(calls) \cap CompileOps = {}
    /\ "useProgram" \in Ops(calls)
    /\ renderingProgram[lastFrame.model] # Null

\* ------------------------------------------------------------------- C2
HeldTextures(m) == {diffuseTexture[m], normalTexture[m]} \ {Null}
DeletesFirst(log) ==
    \A i, j \in DOMAIN log :
        (log[i].op = "deleteTexture" /\ log[j].op # "deleteTexture") => i < j

\* C2: every updateSceneData call made while a model is active releases each
\* texture that model holds exactly once: the handle had never been deleted
\* before, it is passed to deleteTexture once in this call, before every other
\* WebGL call of the call (so before the first frame of the new model), it is
\* neither allocated nor held afterwards, nothing else is deleted, and no
\* handle is ever deleted twice - however many frames the model had rendered.
C2_ReleasedExactlyOnce ==
    [][ /\ \A h \in Range(deletedTextures') : Count(deletedTextures', h) = 1
        /\ (entries' = entries + 1 /\ lastFrame'.via = "updateSceneData"
            /\ sdModel # NullRef) =>
             /\ \A h \in HeldTextures(sdModel) :
                  /\ Count(deletedTextures, h) = 0
                  /\ Count(deletedTextures', h) = 1
                  /\ Cardinality({i \in DOMAIN calls' :
                                     /\ calls'[i].op = "deleteTexture"
                                     /\ calls'[i].args = <<h>>}) = 1
                  /\ h \notin liveTextures'
                  /\ h \notin {diffuseTexture'[m] : m \in ModelIds}
                  /\ h \notin {normalTexture'[m] : m \in ModelIds}
             /\ DeletesFirst(calls')
             /\ Len(deletedTextures') =
                  Len(deletedTextures) + Cardinality(HeldTextures(sdModel)) ]_vars

\* The model was swapped after the previous one had drawn two frames with
\* both of its textures; both were released and the new model drew.
C2_Witness ==
    /\ lastFrame.via = "updateSceneData"
    /\ lastFrame.model = "flat"
    /\ lastFrame.outcome = "drawn"
    /\ sdFrameNumber = 3
    /\ Len(deletedTextures) = 2
    /\ "deleteTexture" \in Ops(calls)

\* ------------------------------------------------------------------- C3
TextureUseOps == {"bindTexture", "texImage2D", "generateMipmap"}

\* C3: after cleanUpTextures with a context and a model, the model's two
\* handles are null; no handle passed to deleteTexture is stored on a model,
\* bound or uploaded to; and a model that drew holds allocated textures, so
\* the setup after a cleanup made new objects.
C3_NoStaleHandle ==
    /\ \A m \in ModelIds :
         LET w == cleanUpTextures(World, GL, m)
         IN  w.diffuseTexture[m] = Null /\ w.normalTexture[m] = Null
    /\ \A m \in ModelIds : HeldTextures(m) \cap Range(deletedTextures) = {}
    /\ \A i \in DOMAIN calls :
         calls[i].op \in TextureUseOps =>
            calls[i].args[1] \notin Range(deletedTextures)
    /\ (lastFrame.outcome = "drawn" /\ hasDiffuseMap(lastFrame.model)) =>
          diffuseTexture[lastFrame.model] \in liveTextures
    /\ (lastFrame.outcome = "drawn" /\ hasNormalMap(lastFrame.model)) =>
          normalTexture[lastFrame.model] \in liveTextures

\* The same model was set again: its textures were deleted and set up anew.
C3_Witness ==
    /\ Len(deletedTextures) = 2
    /\ lastFrame.outcome = "drawn"
    /\ lastFrame.model = "bumped"
    /\ diffuseTexture["bumped"] \notin Range(deletedTextures) \cup {Null}
    /\ normalTexture["bumped"] \notin Range(deletedTextures) \cup {Null}
    /\ "createTexture" \in Ops(calls)
    /\ "deleteTexture" \in Ops(calls)

\* ------------------------------------------------------------------- C4
TextureCallsOfUnit(log, unit) ==
    {i \in DOMAIN log : log[i].op = "activeTexture" /\ log[i].args = <<unit>>}

\* A display-refresh frame of a model whose diffuse (normal) handle is
\* non-null leaves the handle unchanged and creates, binds and uploads no
\* texture for that unit.
C4_HandleReused ==
    \A m \in ModelIds :
        (FrameOf(m) /\ lastFrame'.via = "requestAnimationFrame") =>
           /\ diffuseTexture[m] # Null =>
                /\ diffuseTexture'[m] = diffuseTexture[m]
                /\ TextureCallsOfUnit(calls', 0) = {}
                /\ createdFor'[<<m, 0>>] = createdFor[<<m, 0>>]
           /\ normalTexture[m] # Null =>
                /\ normalTexture'[m] = normalTexture[m]
                /\ TextureCallsOfUnit(calls', 1) = {}
                /\ createdFor'[<<m, 1>>] = createdFor[<<m, 1>>]

\* Between two cleanups of a model at most one texture object is created for
\* each of its maps.
C4_OnePerMap == \A k \in DOMAIN createdFor : createdFor[k] <= 1

\* C4: texture setup is idempotent per allocation: a non-null handle is left
\* unchanged and no texture is created, bound or uploaded for it; so across
\* the frames of one model without a cleanup, one texture object per present
\* map is created.
C4_SetupIdempotent == []C4_OnePerMap /\ [][C4_HandleReused]_vars

\* ------------------------------------------------------------------- C5
\* C5: a frame whose compile or link failed leaves renderingProgram null and
\* draws nothing, and the loop is not stopped: a next frame is scheduled.
C5_CompileFailureKeepsLoop ==
    lastFrame.outcome = "noProgram" =>
       /\ renderingProgram[lastFrame.model] = Null
       /\ "drawElements" \notin Ops(calls)
       /\ "useProgram" \notin Ops(calls)
       /\ pending > 0

\* ------------------------------------------------------------------- C6
MissingTextureErrors == {"Failed to set up diffuse texture",
                         "Failed to set up normal texture"}

\* C6: a frame that aborts because the texture's pixel data is not in the
\* loader cache leaves the loop scheduled, so that a later frame can set the
\* texture up once the load has completed.
C6_MissingTextureKeepsLoop ==
    (lastFrame.outcome = "threw" /\ lastFrame.err \in MissingTextureErrors) =>
       pending > 0

\* ------------------------------------------------------------------- C7
Absent(gl, m, c) == gl = Null \/ m = NullRef \/ c = NullRef

\* An entry point that leaves the context, the model or the camera absent
\* runs no frame: no WebGL call but the cleanup's deleteTexture, no error,
\* nothing allocated, no callback queued.
C7_IdleFrame ==
    (entries' = entries + 1 /\ Absent(glContext', sdModel', sdCamera')) =>
       /\ lastFrame'.outcome \in {"none", "idle"}
       /\ lastFrame'.err = ""
       /\ Ops(calls') \subseteq {"deleteTexture"}
       /\ lastFrame'.via = "requestAnimationFrame" =>
             calls' = << >> /\ pending' = pending - 1
       /\ lastFrame'.via = "updateSceneData" => pending' = pending
       /\ <<nextShader', nextProgram', nextTexture', liveBuffers', sdFrameNumber'>>
            = <<nextShader, nextProgram, nextTexture, liveBuffers, sdFrameNumber>>

\* While the context, the model or the camera is absent, the last entry
\* point issued no draw call.
C7_NoDrawWhileIdle ==
    Absent(glContext, sdModel, sdCamera) => "drawElements" \notin Ops(calls)

\* C7: a frame that finds the context, the model or the camera absent issues
\* no GPU call, raises no error and does not reschedule itself; once
\* updateSceneData has cleared the model or the camera, no draw call is issued
\* until an updateSceneData call supplies both.
C7_IdleHalts == []C7_NoDrawWhileIdle /\ [][C7_IdleFrame]_vars

\* The loop had drawn, the camera was cleared, and the queued callback found
\* no camera: nothing is queued any more.
C7_Witness ==
    /\ lastFrame.via = "requestAnimationFrame"
    /\ lastFrame.outcome = "idle"
    /\ sdModel # NullRef /\ sdCamera = NullRef
    /\ sdFrameNumber > 0
    /\ pending = 0
    /\ calls = << >>

\* ------------------------------------------------------------------- C8
LightsMissing(m) ==
    /\ m # NullRef
    /\ getVertexShaderName(m) = "vertexTextureNormalNormalMapShader"
    /\ ~({"lightsUniform", "lightColors"} \subseteq Uniforms(m))

\* C8: a frame whose program has no lights arrays skips the light upload and
\* still uploads the matrices, draws and reschedules.
C8_MissingUniformNonFatal ==
    (LightsMissing(lastFrame.model) /\ "useProgram" \in Ops(calls)) =>
       /\ lastFrame.outcome = "drawn"
       /\ "uniformMatrix4fv" \in Ops(calls)
       /\ "drawElements" \in Ops(calls)
       /\ pending > 0

\* ------------------------------------------------------------------- C9
C9_Window ==
    (entries' = entries + 1 /\ lastFrame'.outcome = "drawn") =>
       IF now' - lastTime >= FpsWindow
       THEN fps' = frameNumber + 1 /\ frameNumber' = 0 /\ lastTime' = now'
       ELSE fps' = fps /\ frameNumber' = frameNumber + 1 /\ lastTime' = lastTime

\* C9: the frame counter goes up by one per completed frame, and the frame at
\* which the time since the window start reaches FpsWindow (1000) reports the
\* frames counted in the window as fps, resets the counter to 0 and restarts
\* the window at the current time.
C9_FpsWindow == [][C9_Window]_vars

\* ------------------------------------------------------------------ C10
Min(a, b) == IF a <= b THEN a ELSE b
\* The arguments of the last viewport call before the first draw call.
LastViewport(log) ==
    LET draw == CHOOSE i \in DOMAIN log :
                   /\ log[i].op = "drawElements"
                   /\ \A j \in DOMAIN log : log[j].op = "drawElements" => i <= j
        v == CHOOSE i \in 1 .. draw :
                   /\ log[i].op = "viewport"
                   /\ \A j \in 1 .. draw : log[j].op = "viewport" => j <= i
    IN  log[v].args
\* v is the centred square of the canvas cv, in half pixels.
Centred(cv, v) ==
    /\ v[3] = 2 * Min(cv[1], cv[2]) /\ v[4] = v[3]
    /\ 2 * v[1] = 2 * cv[1] - v[3]
    /\ 2 * v[2] = 2 * cv[2] - v[4]
    /\ v[1] >= 0 /\ v[2] >= 0
    /\ v[1] + v[3] <= 2 * cv[1]
    /\ v[2] + v[4] <= 2 * cv[2]
ViewportSizes == (1 .. 4) \X (1 .. 4)

\* C10: the last viewport set before the draw is the whole canvas in
\* perspective mode and, in orthographic mode, the centred square of side
\* min(width, height) with offsets (width - side)/2 and (height - side)/2:
\* (100, 0, 600, 600) on 800x600 and (0, 100, 600, 600) on 600x800; the
\* square lies inside the canvas.  (Viewport arguments are in half pixels.)
C10_Viewport ==
    /\ \A cv \in ViewportSizes \cup CanvasSizes : Centred(cv, OrthoViewport(cv))
    /\ lastFrame.outcome = "drawn" =>
         LET v == LastViewport(calls) IN
         IF usePerspective(lastFrame.camera)
         THEN v = <<0, 0, 2 * canvas[1], 2 * canvas[2]>>
         ELSE /\ Centred(canvas, v)
              /\ canvas = <<800, 600>> => v = <<200, 0, 1200, 1200>>
              /\ canvas = <<600, 800>> => v = <<0, 200, 1200, 1200>>

\* An orthographic frame drew on the 800x600 canvas in the square
\* (100, 0, 600, 600).
C10_Witness ==
    /\ lastFrame.outcome = "drawn"
    /\ ~usePerspective(lastFrame.camera)
    /\ canvas = <<800, 600>>
    /\ LastViewport(calls) = <<200, 0, 1200, 1200>>

\* ------------------------------------------------------------------ C11
IsDraw(call) == call.op = "drawElements"
\* The draw calls of a log, in order.
DrawsOf(log) == SelectSeq(log, IsDraw)
\* The bytes of one index: gl.UNSIGNED_SHORT.
IndexBytes == 2

\* C11: a frame that draws with a wireframe camera issues exactly
\* numTriangles draw calls, the i-th (from 0) a line loop of 3 indices
\* starting at index 3i; with a solid camera it issues exactly one indexed
\* triangle draw of all vertexIndices.length indices from index 0.
C11_DrawCalls ==
    lastFrame.outcome = "drawn" =>
       LET d == DrawsOf(calls)
           m == lastFrame.model
       IN  IF ~renderSolid(lastFrame.camera)
           THEN /\ Len(d) = numTriangles(m)
                /\ \A i \in 0 .. numTriangles(m) - 1 :
                      /\ d[i + 1].name = "LINE_LOOP"
                      /\ d[i + 1].args = <<3, IndexBytes * 3 * i>>
           ELSE /\ Len(d) = 1
                /\ d[1].name = "TRIANGLES"
                /\ d[1].args = <<vertexIndicesLength(m), 0>>

\* A wireframe frame drew a model of two triangles with two line loops.
C11_Witness ==
    /\ lastFrame.outcome = "drawn"
    /\ ~renderSolid(lastFrame.camera)
    /\ numTriangles(lastFrame.model) = 2
    /\ Len(DrawsOf(calls)) = 2
    /\ DrawsOf(calls)[2].args = <<3, 6>>

\* ------------------------------------------------------------------ C12
\* A frame of the active model has run past its guards.
FrameRan == lastFrame.outcome \in {"noProgram", "threw", "drawn"}
\* Nothing created for model p is allocated: no buffer, no program, no
\* texture it holds.
NothingAllocatedFor(p) ==
    /\ liveBuffers[p] = 0
    /\ renderingProgram[p] \notin livePrograms
    /\ HeldTextures(p) \cap liveTextures = {}
\* The frame bound the program of model m and textures of model m only.
UsesOnly(log, m) ==
    \A i \in DOMAIN log :
       /\ log[i].op = "useProgram" => log[i].args = <<renderingProgram[m]>>
       /\ log[i].op = "bindTexture" =>
             log[i].args[1] \in HeldTextures(m) \cup (liveTextures \ UNION {HeldTextures(p) : p \in ModelIds})

\* C12: once a frame of the active model has run, no GPU object created for
\* any other model (texture, vertex/index buffer, compiled program) is still
\* allocated, and the frame used the active model's program and textures
\* only.
C12_SwapCleansUp ==
    FrameRan =>
       /\ \A p \in ModelIds \ {lastFrame.model} : NothingAllocatedFor(p)
       /\ UsesOnly(calls, lastFrame.model)

\* ------------------------------------------------------------------ C13
C13_KeepsContext == glContext # Null => glContext' = glContext

\* C13: sceneData.glContext is null or the one context the first successful
\* setupCanvas stored, and once it is non-null no step (a further
\* setupCanvas, an updateSceneData, a frame, a fetch) changes it.
C13_ContextCreatedOnce == [](glContext \in {Null, GL}) /\ [][C13_KeepsContext]_vars

\* With the context stored, the model was swapped and frames were drawn.
C13_Witness ==
    /\ glContext = GL
    /\ entries = MaxEntries
    /\ lastFrame.via = "requestAnimationFrame"
    /\ lastFrame.outcome = "drawn"
    /\ Len(deletedTextures) > 0

\* ------------------------------------------------------------------ C14
\* C14: for every model, diffuseTexture is non-null only if hasDiffuseMap
\* and normalTexture only if hasNormalMap, and a non-null handle was created
\* by a texture setup of that model since the model's last cleanup.
C14_HandleImpliesMapAndSetup ==
    \A m \in ModelIds :
       /\ diffuseTexture[m] # Null =>
             hasDiffuseMap(m) /\ createdFor[<<m, 0>>] >= 1
       /\ normalTexture[m] # Null =>
             hasNormalMap(m) /\ createdFor[<<m, 1>>] >= 1

\* A model holds both textures, set up after an earlier cleanup, while the
\* models without maps hold none.
C14_Witness ==
    /\ diffuseTexture["bumped"] # Null
    /\ normalTexture["bumped"] # Null
    /\ Len(deletedTextures) > 0
    /\ lastFrame.outcome = "drawn"
    /\ renderingProgram["flat"] # Null

\* ------------------------------------------------------------------ C15
\* The file the model's maps name.
MapFile(m) == textures(m, "map_Kd")

\* A renderer entry point (updateSceneData, a frame callback) leaves the
\* loader's cache and its fetches alone, and its texture setup found the
\* image exactly when the cache held it: a missing-texture error means the
\* name was absent, a texture upload means it was cached.
C15_RendererOnlyLooksUp ==
    entries' = entries + 1 =>
       /\ modelCache' = modelCache
       /\ inflight' = inflight
       /\ lastFrame'.err \in MissingTextureErrors =>
             modelCache[MapFile(lastFrame'.model)] = "absent"
       /\ "texImage2D" \in Ops(calls') =>
             modelCache[MapFile(lastFrame'.model)] = "ppm"

\* The cache changes only when a fetch that loadIntoCache started settles,
\* and then from absent to the image; a failed fetch leaves it unchanged.
C15_CacheFilledByLoad ==
    \A n \in TextureNames :
       /\ modelCache'[n] # modelCache[n] =>
             /\ modelCache[n] = "absent" /\ modelCache'[n] = "ppm"
             /\ inflight[n] > 0 /\ inflight'[n] = inflight[n] - 1
       /\ inflight'[n] > inflight[n] =>
             modelCache[n] = "absent" /\ entries' = entries
       /\ FetchRejected(n) => modelCache' = modelCache

\* No name is cached before any load.
C15_EmptyAtStart == \A n \in TextureNames : modelCache[n] = "absent"

\* C15: the renderer never triggers loading: texture setup only looks the
\* name up (cache and fetches unchanged), and the lookup yields the image
\* exactly when an earlier loadIntoCache of the name completed successfully:
\* the cache starts empty, is filled only by a settled fetch, and a failed
\* fetch leaves it unchanged.
C15_RendererNeverLoads ==
    /\ C15_EmptyAtStart
    /\ [][C15_RendererOnlyLooksUp /\ C15_CacheFilledByLoad]_vars

\* A frame found no image and failed, the load completed afterwards with no
\* help from the renderer, and a later updateSceneData drew the textures.
C15_Witness ==
    /\ lastFrame.outcome = "drawn"
    /\ hasDiffuseMap(lastFrame.model)
    /\ "texImage2D" \in Ops(calls)
    /\ modelCache[MapFile(lastFrame.model)] = "ppm"
    /\ createdFor[<<lastFrame.model, 0>>] = 1
    /\ nextTexture > First + 2

\* ------------------------------------------------------------------ C16
\* The positions in a log of the calls of `op`.
At(log, op) == {i \in DOMAIN log : log[i].op = op}
\* The shader objects gl.createShader yielded in a log.
ShadersCreated(log) == {log[i].args[1] : i \in At(log, "createShader")}

\* C16: when the compile/link sequence of the last entry point reached
\* linkProgram, each of the two stage objects it created was passed to
\* deleteShader once, after linkProgram, and is no longer allocated - whether
\* the link succeeded (a program is bound) or failed (no program).
C16_StagesDeletedAfterLink ==
    "linkProgram" \in Ops(calls) =>
       /\ Cardinality(ShadersCreated(calls)) = 2
       /\ ShadersCreated(calls) \cap liveShaders = {}
       /\ \A sh \in ShadersCreated(calls) :
             /\ Cardinality({i \in At(calls, "deleteShader") :
                                calls[i].args = <<sh>>}) = 1
             /\ \A i \in At(calls, "deleteShader"), j \in At(calls, "linkProgram") :
                   j < i
       /\ lastFrame.outcome \in {"noProgram", "threw", "drawn"}

\* The link failed, and both stage objects of the call are gone.
C16_Witness ==
    /\ "linkProgram" \in Ops(calls)
    /\ lastFrame.outcome = "noProgram"
    /\ renderingProgram[lastFrame.model] = Null
    /\ Cardinality(At(calls, "deleteShader")) = 2
    /\ ShadersCreated(calls) \cap liveShaders = {}

\* ------------------------------------------------------------------ C17
LightArrays == {"lightsUniform", "lightColors"}
LightErrors == {"Failed to get the storage location of hack",
                "Failed to get the storage location of lightColor"}
\* The names of the light arrays a log looks up, and of those it uploads.
LightLookups(log) ==
    {log[i].name : i \in {j \in At(log, "getUniformLocation") : log[j].name \in LightArrays}}
LightUploads(log) == {log[i].name : i \in At(log, "uniform3fv")}
\* The frame bound a program, so it went on to the light setup.
ReachedLights == FrameRan /\ "useProgram" \in Ops(calls)
\* The normal-mapped lighting shader.
IsLightingShader(m) ==
    getVertexShaderName(m) = "vertexTextureNormalNormalMapShader"
\* For any other shader name: no lookup, no upload, no lights error.
C17_OtherShadersSkipLights ==
    (ReachedLights /\ ~IsLightingShader(lastFrame.model)) =>
       /\ LightLookups(calls) = {}
       /\ LightUploads(calls) = {}
       /\ lastFrame.err \notin LightErrors

\* C17 as stated: a frame that reaches the light setup uploads the light
\* position and colour arrays if and only if the vertex shader name is the
\* normal-mapped lighting shader; other names look nothing up, upload
\* nothing and cannot fail on a missing lights uniform.
C17_UploadIffShaderName ==
    /\ ReachedLights =>
          (LightUploads(calls) = LightArrays <=> IsLightingShader(lastFrame.model))
    /\ C17_OtherShadersSkipLights

\* C17 amended: the light setup is attempted (the position array is looked
\* up) if and only if the vertex shader name is the normal-mapped lighting
\* shader, and both arrays are uploaded if and only if, in addition, the
\* program declares both; other names look nothing up, upload nothing and
\* cannot fail on a missing lights uniform.
C17_LightGate ==
    /\ ReachedLights =>
          /\ "lightsUniform" \in LightLookups(calls)
                <=> IsLightingShader(lastFrame.model)
          /\ LightUploads(calls) = LightArrays
                <=> (IsLightingShader(lastFrame.model)
                     /\ LightArrays \subseteq Uniforms(lastFrame.model))
          /\ LightUploads(calls) \subseteq LightLookups(calls)
    /\ C17_OtherShadersSkipLights

\* A frame of the lighting shader uploaded both arrays and drew, after a
\* frame of another shader had drawn without lights.
C17_Witness ==
    /\ lastFrame.outcome = "drawn"
    /\ IsLightingShader(lastFrame.model)
    /\ LightUploads(calls) = LightArrays
    /\ renderingProgram["flat"] # Null

\* ------------------------------------------------------------------ C18
\* Every call of a kind in `first` comes before every call of a kind in `then`.
Precede(log, first, then) ==
    \A i, j \in DOMAIN log :
       (log[i].op \in first /\ log[j].op \in then) => i < j
VertexBufferOps == {"createBuffer", "bindBuffer", "bufferData"}
LightOps == {"uniform3fv"}
TextureSetupOps == {"createTexture", "activeTexture", "bindTexture",
                    "texParameteri", "uniform1i", "texImage2D",
                    "generateMipmap", "uniform2fv"}
MatrixOps == {"uniformMatrix4fv"}
DrawOps == {"drawElements"}

\* C18: in every frame that draws, the program is obtained (compiled and
\* linked, if it was not cached) and bound by one useProgram before the
\* vertex-buffer setup, the light upload and the texture setup; texture setup
\* and all three matrix uploads precede the draw calls; flush and finish
\* follow the draw calls; and requestAnimationFrame is the last call of the
\* frame, made once.
C18_StepOrder ==
    lastFrame.outcome = "drawn" =>
       /\ Cardinality(At(calls, "useProgram")) = 1
       /\ Precede(calls, CompileOps, {"useProgram"})
       /\ Precede(calls, {"useProgram"},
                  VertexBufferOps \cup LightOps \cup TextureSetupOps)
       /\ VertexBufferOps \subseteq Ops(calls)
       /\ Precede(calls, TextureSetupOps \cup MatrixOps, DrawOps)
       /\ Cardinality(At(calls, "uniformMatrix4fv")) = Cardinality(Matrices)
       /\ At(calls, "drawElements") # {}
       /\ Precede(calls, DrawOps, {"flush", "finish"})
       /\ Precede(calls, {"flush"}, {"finish"})
       /\ {"flush", "finish"} \subseteq Ops(calls)
       /\ At(calls, "requestAnimationFrame") = {Len(calls)}

\* A frame compiled its program, uploaded the lights, set up both textures,
\* drew, and asked for the next frame.
C18_Witness ==
    /\ lastFrame.outcome = "drawn"
    /\ "linkProgram" \in Ops(calls)
    /\ "uniform3fv" \in Ops(calls)
    /\ Cardinality(At(calls, "texImage2D")) = 2
    /\ calls[Len(calls)].op = "requestAnimationFrame"

\* ------------------------------------------------------------------ C19
\* C19: after any sequence of setupCanvas, updateSceneData calls and frame
\* callbacks, at most one frame callback is pending in the display-refresh
\* scheduler.
C19_AtMostOnePending == pending <= 1

\* ------------------------------------------------------------------ C20
\* C20: no texture object leaks: every allocated texture object is stored on
\* a model (from where cleanUpTextures deletes it), also after a texture
\* setup that found no data for the texture name.
C20_NoTextureLeak ==
    liveTextures \subseteq UNION {HeldTextures(m) : m \in ModelIds}

\* ------------------------------------------------------------------ C21
\* The program objects gl.createProgram yielded in a log.
ProgramsCreated(log) == {log[i].args[1] : i \in At(log, "createProgram")}

\* C21: when compileProgram yielded no program (a vertex or fragment compile
\* failure, a link failure), no shader stage object and no program object
\* that call created is still allocated.
C21_NoLeakOnFailedCompile ==
    lastFrame.outcome = "noProgram" =>
       /\ ShadersCreated(calls) \cap liveShaders = {}
       /\ ProgramsCreated(calls) \cap livePrograms = {}

\* ------------------------------------------------------------------ C22
\* At most one fetch of a name is in flight.
C22_OneInFlight == \A n \in TextureNames : inflight[n] <= 1
\* A fetch of a name starts only while none is in flight and the name is not
\* cached, and the cache entry of a name is written only while it is absent.
C22_OneFetchOneWrite ==
    \A n \in TextureNames :
       /\ inflight'[n] > inflight[n] =>
             inflight[n] = 0 /\ modelCache[n] = "absent"
       /\ FetchResolved(n) => modelCache[n] = "absent"

\* C22: each texture file is fetched at most once: a loadIntoCache call that
\* starts while a fetch of the same name is in flight issues no second
\* fetch, and at most one cache entry is ever written for the name.
C22_FetchedAtMostOnce == []C22_OneInFlight /\ [][C22_OneFetchOneWrite]_vars

\* ---------------------------------------------------------------- C23
MaxLights == 3
RowPoints == {RowStart, RowEnd, <<0, 4, 2>>}
Max(a, b) == IF a >= b THEN a ELSE b
SamePoint(l, p) == \A k \in 1 .. 3 : l.pos[k] = p[k] * l.den
Within(l, p1, p2) ==
    \A k \in 1 .. 3 : /\ Min(p1[k], p2[k]) * l.den <= l.pos[k]
                      /\ l.pos[k] <= Max(p1[k], p2[k]) * l.den
EvenlySpaced(row) ==
    \A i \in 1 .. Len(row) - 2 : \A k \in 1 .. 3 :
        /\ row[i].den = row[i + 1].den /\ row[i + 1].den = row[i + 2].den
        /\ row[i + 1].pos[k] - row[i].pos[k] = row[i + 2].pos[k] - row[i + 1].pos[k]
RowAsClaimed(row, p1, p2, n) ==
    /\ Len(row) = n
    /\ SamePoint(row[1], p1)
    /\ SamePoint(row[Len(row)], p2)
    /\ EvenlySpaced(row)
    /\ \A i \in 1 .. Len(row) : Within(row[i], p1, p2)
SceneRow == SubSeq(lights, 1, Len(lights) - Len(CornerLights))

\* C23: linearLight(point1, point2, lights, color) with lights >= 2 appends
\* exactly `lights` point lights, evenly spaced and in order, the first at
\* point1 and the last at point2, none beyond point2: for the row of the
\* scene (line 33) and for every small input.
C23_LinearLightRow ==
    /\ RowAsClaimed(SceneRow, RowStart, RowEnd, RowLights)
    /\ \A n \in 2 .. MaxLights : \A p1 \in RowPoints : \A p2 \in RowPoints :
          RowAsClaimed(linearLight(<< >>, p1, p2, n), p1, p2, n)

====
